---- MODULE Spec2Model ----
(***************************************************************************)
(* awsconnect: the resolution cascade of src/main.rs (identity, credential *)
(* bridge, cluster, task, container, session launch) and the domain model  *)
(* of src/task.rs.                                                         *)
(*                                                                         *)
(* Strings are sequences of tokens; each token is a run of characters that *)
(* the program never looks inside (a delimiter such as ":cluster/" is one  *)
(* token).  Tokens are ordered by Alphabet, which lists them in byte       *)
(* order, so the lexicographic order on token sequences is the order Rust  *)
(* gives the strings (no string that is sorted here holds a token that is  *)
(* a proper prefix of another token).                                      *)
(* Option<T> is a sequence of length at most one.                          *)
(* Menus: Select::interact() runs on an interactive terminal; the operator *)
(* picks any entry; with no entries interact() returns Err.  Indices are   *)
(* 1-based here, 0-based in the source.                                    *)
(***************************************************************************)
EXTENDS Naturals, Integers, Sequences, FiniteSets, TLC

\* ------------------------------------------------------------ bounds
MaxLines == 2       \* lines in the vault's output
MaxClusters == 2    \* ARNs in a list-clusters response
MaxTasks == 2       \* records in a describe-tasks response

\* ------------------------------------------------------------ Option
None == <<>>
Some(x) == <<x>>
IsSome(o) == o # <<>>
Unwrap(o) == o[1]

\* ------------------------------------------------------------ strings
Alphabet ==
  << "111", "222", "7", ":", ":cluster/", ":task-definition/",
     "PENDING", "RUNNING", "STOPPED", "UNKNOWN",
     "alpha", "api", "arn", "batch", "beta", "c-db", "c-web", "db", "default", "dev",
     "ghost", "my-cluster", "prod", "running", "t1", "t2", "t3", "web" >>

Rank(tok) == CHOOSE i \in 1..Len(Alphabet) : Alphabet[i] = tok

\* String::cmp, strictly less: the first differing token decides, a proper
\* prefix is smaller.
StrLess(s, t) ==
  \E i \in 1..(Len(s) + 1) :
     /\ i <= Len(t)
     /\ \A j \in 1..(i - 1) : s[j] = t[j]
     /\ \/ i = Len(s) + 1
        \/ /\ i <= Len(s)
           /\ Rank(s[i]) < Rank(t[i])

StrLeq(s, t) == s = t \/ StrLess(s, t)

\* Position of element i after a stable ascending sort by keys.
SortedPos(keys, i) ==
  1 + Cardinality({ j \in 1..Len(keys) :
                      \/ StrLess(keys[j], keys[i])
                      \/ (keys[j] = keys[i] /\ j < i) })

\* a sort that was left out: the items stay in the order given
StableSortSkipped(items, keys) == items

\* slice::sort (stable) of items by the parallel sequence keys.
StableSort(items, keys) ==
  [ p \in 1..Len(items) |->
      items[CHOOSE i \in 1..Len(items) : SortedPos(keys, i) = p] ]

Min(S) == CHOOSE x \in S : \A y \in S : x <= y

DelimPositions(s, d) == { i \in 1..Len(s) : s[i] = d }

\* s.split(d).nth(0): the part before the first d (all of s without d).
SplitNth0(s, d) ==
  IF DelimPositions(s, d) = {} THEN Some(s)
  ELSE Some(SubSeq(s, 1, Min(DelimPositions(s, d)) - 1))

\* s.split(d).nth(1): the part between the first d and the next one.
SplitNth1(s, d) ==
  IF DelimPositions(s, d) = {} THEN None
  ELSE LET rest == SubSeq(s, Min(DelimPositions(s, d)) + 1, Len(s))
       IN  SplitNth0(rest, d)

\* ------------------------------------------------------------ task.rs
TaskStatus ==
  << "PROVISIONING", "PENDING", "ACTIVATING", "RUNNING",
     "DEACTIVATING", "STOPPING", "DEPROVISIONING", "STOPPED" >>

TaskStatusNames == { <<TaskStatus[i]>> : i \in 1..Len(TaskStatus) }

\* TaskStatus::from_str (strum EnumString): exact, case-sensitive name.
TaskStatusFromStr(s) == IF s \in TaskStatusNames THEN Some(s[1]) ELSE None

\* TaskStatus::pretty_status
pretty_status(status) ==
  IF status # "RUNNING" THEN <<" ", status>> ELSE <<>>

\* a container entry that prints the status of a running container too
prettyAlwaysStatus(c) == c.name \o <<" ">> \o c.status

\* Container::pretty
pretty(c) ==
  c.name \o (IF c.status = <<"RUNNING">> THEN <<>> ELSE <<" ">> \o c.status)

RECURSIVE JoinContainers(_, _)
\* the loop of friendly_output: every entry, ", " after all but the last
JoinContainers(cs, index) ==
  IF index > Len(cs) THEN <<>>
  ELSE pretty(cs[index])
       \o (IF index # Len(cs) THEN <<", ">> ELSE <<>>)
       \o JoinContainers(cs, index + 1)

\* Task::friendly_output
friendly_output(t) ==
  t.name \o pretty_status(t.status) \o <<" (">> \o t.arn \o <<") [">>
         \o JoinContainers(t.containers, 1) \o <<"]">>

\* One container of the conversion (task.rs:49): every field is unwrapped.
ContainerOk(c) ==
  IsSome(c.container_arn) /\ IsSome(c.name) /\ IsSome(c.last_status)

ContainerFrom(c) ==
  [ arn |-> Unwrap(c.container_arn), name |-> Unwrap(c.name),
    status |-> Unwrap(c.last_status) ]

\* The name of task.rs:46: after ":task-definition/", before the next ":".
TaskNameOf(def) ==
  IF SplitNth1(def, ":task-definition/") = None THEN None
  ELSE SplitNth0(Unwrap(SplitNth1(def, ":task-definition/")), ":")

\* Does From<rusoto_ecs::Task> return (TRUE) or panic on an expect/unwrap?
TaskFromOk(item) ==
  /\ IsSome(item.task_definition_arn)
  /\ IsSome(TaskNameOf(Unwrap(item.task_definition_arn)))
  /\ IsSome(item.containers)
  /\ \A i \in 1..Len(Unwrap(item.containers)) :
        ContainerOk(Unwrap(item.containers)[i])
  /\ IsSome(item.task_arn)
  /\ IsSome(item.last_status)
  /\ IsSome(TaskStatusFromStr(Unwrap(item.last_status)))

\* impl From<rusoto_ecs::Task> for Task, where it returns.
TaskFrom(item) ==
  [ name |-> Unwrap(TaskNameOf(Unwrap(item.task_definition_arn))),
    arn |-> Unwrap(item.task_arn),
    containers |-> [ i \in 1..Len(Unwrap(item.containers)) |->
                       ContainerFrom(Unwrap(item.containers)[i]) ],
    status |-> Unwrap(TaskStatusFromStr(Unwrap(item.last_status))) ]

\* ------------------------------------------------------------ inputs
SeqsUpTo(S, n) == UNION { [1..k -> S] : k \in 0..n }

\* cli.rs: the two subcommands and their optional arguments.
Environments == { None, Some(<<"dev">>), Some(<<"ghost">>) }
ContainerArgs == { None, Some(<<"web">>), Some(<<"c-db">>) }
ClusterArgs == { None, Some(<<"my-cluster">>) }
RegionArgs == { None, Some(<<"eu-west-1">>), Some(<<"bogus">>) }
TaskArgs == { None, Some(<<"t1">>) }

Clis ==
  [ command : {"login"}, environment : Environments, container : {None},
    cluster : {None}, region : {None}, task : {None} ]
  \cup
  [ command : {"execute"}, environment : Environments,
    container : ContainerArgs, cluster : ClusterArgs, region : RegionArgs,
    task : TaskArgs ]

\* Region::from_str accepts the names of the provider's regions.
RegionNames == { <<"eu-west-1">> }

Executables == { "aws-vault", "aws" }

\* The process environment: a value per variable, None when unset.
EnvKeys == { "AWS_ACCESS_KEY_ID", "AWS_SESSION_TOKEN", "HOME" }
Env0 ==
  [ k \in EnvKeys |->
      IF k = "AWS_ACCESS_KEY_ID" THEN Some("old")
      ELSE IF k = "HOME" THEN Some("/root") ELSE None ]

\* Lines the vault pipeline can print: assignments, and text that is none.
KV(k, v) == [ kind |-> "kv", key |-> k, value |-> v ]
Garbage == [ kind |-> "garbage", key |-> "", value |-> "" ]
LinePool ==
  { KV("AWS_ACCESS_KEY_ID", "new"), KV("AWS_ACCESS_KEY_ID", "newer"),
    KV("AWS_SESSION_TOKEN", "new"), Garbage }
VaultOutputs == SeqsUpTo(LinePool, MaxLines)

\* Profiles that load() can discover.
ProfilePool == { <<"default">>, <<"dev">>, <<"prod">> }

\* list-clusters: ARNs of two accounts, and one without ":cluster/".
ClusterArnPool ==
  { <<"111", ":cluster/", "beta">>, <<"222", ":cluster/", "alpha">>,
    <<"111", ":cluster/", "alpha">>, <<"111", "alpha">> }
ListClustersResults ==
  { [ ok |-> FALSE, cluster_arns |-> None ],
    [ ok |-> TRUE, cluster_arns |-> None ] }
  \cup { [ ok |-> TRUE, cluster_arns |-> Some(l) ] :
           l \in SeqsUpTo(ClusterArnPool, MaxClusters) }

\* list-tasks
ListTasksResults ==
  { [ ok |-> FALSE, task_arns |-> None ],
    [ ok |-> TRUE, task_arns |-> None ],
    [ ok |-> TRUE, task_arns |-> Some(<<>>) ],
    [ ok |-> TRUE, task_arns |-> Some(<< <<"t1">>, <<"t2">> >>) ] }

\* describe-tasks: raw records (rusoto_ecs::Task), every field optional.
Web ==
  [ container_arn |-> Some(<<"c-web">>), name |-> Some(<<"web">>),
    last_status |-> Some(<<"RUNNING">>) ]
Db ==
  [ container_arn |-> Some(<<"c-db">>), name |-> Some(<<"db">>),
    last_status |-> Some(<<"PENDING">>) ]
RawApi ==
  [ task_definition_arn |-> Some(<<"arn", ":task-definition/", "api", ":", "7">>),
    containers |-> Some(<<Web, Db>>), task_arn |-> Some(<<"t1">>),
    last_status |-> Some(<<"RUNNING">>) ]
RawBatch ==
  [ task_definition_arn |-> Some(<<"arn", ":task-definition/", "batch">>),
    containers |-> Some(<<Db>>), task_arn |-> Some(<<"t2">>),
    last_status |-> Some(<<"STOPPED">>) ]
RawNoContainers ==
  [ task_definition_arn |-> Some(<<"arn", ":task-definition/", "api", ":", "7">>),
    containers |-> Some(<<>>), task_arn |-> Some(<<"t3">>),
    last_status |-> Some(<<"RUNNING">>) ]
WellFormedRecords == { RawApi, RawBatch, RawNoContainers }
MalformedRecords ==
  { [ RawApi EXCEPT !.task_definition_arn = None ],
    [ RawApi EXCEPT !.task_definition_arn = Some(<<"arn", ":", "api">>) ],
    [ RawApi EXCEPT !.containers = None ],
    [ RawApi EXCEPT !.containers =
        Some(<< [ Web EXCEPT !.container_arn = None ] >>) ],
    [ RawApi EXCEPT !.containers = Some(<< [ Web EXCEPT !.name = None ] >>) ],
    [ RawApi EXCEPT !.containers =
        Some(<< [ Web EXCEPT !.last_status = None ] >>) ],
    [ RawApi EXCEPT !.task_arn = None ],
    [ RawApi EXCEPT !.last_status = None ],
    [ RawApi EXCEPT !.last_status = Some(<<"running">>) ],
    [ RawApi EXCEPT !.last_status = Some(<<"UNKNOWN">>) ] }
\* Lists of well-formed records, and every malformed record alone, after a
\* well-formed record and before one.
RecordLists ==
  SeqsUpTo(WellFormedRecords, MaxTasks)
  \cup { <<m>> : m \in MalformedRecords }
  \cup { <<RawApi, m>> : m \in MalformedRecords }
  \cup { <<m, RawBatch>> : m \in MalformedRecords }

ApiFailure == <<"MISSING">>
DescribeTasksResults ==
  { [ ok |-> FALSE, failures |-> None, tasks |-> None ] }
  \cup { [ ok |-> TRUE, failures |-> None, tasks |-> t ] :
           t \in { None } \cup { Some(l) : l \in RecordLists } }
  \cup { [ ok |-> TRUE, failures |-> f, tasks |-> t ] :
           f \in { Some(<<>>), Some(<<ApiFailure>>) },
           t \in { None, Some(<<RawApi>>), Some(<<RawApi, RawBatch>>) } }

\* ------------------------------------------------------------ state
VARIABLES
  pc,            \* the statement of main that runs next, or how main ended
  failed_at,     \* the step that returned Err or panicked
  cli,           \* the parsed command line; an argument is None once moved
  path,          \* executables that which() finds
  vault_stdout,  \* what the vault pipeline prints, until it is read
  env,           \* the process environment
  profile,       \* Option: the profile get_profile returned
  client,        \* Option: the region the EcsClient was built for
  cluster_arn,   \* Option: what get_cluster returned
  task,          \* Option: what get_tasks returned
  container,     \* Option: what choose_container returned
  menu,          \* Option: the menu the last step showed, and the choice
  responses,     \* the API responses the last step received, in order
  trace,         \* external effects so far, in order
  launched       \* Option: the arguments of the execute-command session

vars ==
  << pc, failed_at, cli, path, vault_stdout, env, profile, client,
     cluster_arn, task, container, menu, responses, trace, launched >>

Init ==
  /\ pc = "confirm_dependencies"
  /\ failed_at = "none"
  /\ cli \in Clis
  /\ path \in SUBSET Executables
  /\ vault_stdout \in VaultOutputs
  /\ env = Env0
  /\ profile = None
  /\ client = None
  /\ cluster_arn = None
  /\ task = None
  /\ container = None
  /\ menu = None
  /\ responses = <<>>
  /\ trace = <<>>
  /\ launched = None

\* main, lines 31-56: the calls of each subcommand, in order
LoginSteps == << "confirm_dependencies", "get_profile", "login" >>
ExecuteSteps ==
  << "confirm_dependencies", "get_profile", "setup_environment", "new_client",
     "get_cluster", "get_tasks", "choose_container", "execute_bash_container" >>

\* the step after `step` in steps; "ok" (main returns Ok) after the last
NextIn(steps, step) ==
  LET i == CHOOSE i \in 1..Len(steps) : steps[i] = step
  IN  IF i = Len(steps) THEN "ok" ELSE steps[i + 1]

\* a main that builds the client before it bridges the credentials
MainNextClientFirst(step, command) ==
  NextIn(IF command = "login" THEN LoginSteps
         ELSE << "confirm_dependencies", "get_profile", "new_client",
                 "setup_environment", "get_cluster", "get_tasks",
                 "choose_container", "execute_bash_container" >>, step)

\* a main whose login arm also bridges the credentials before it logs in
MainNextLoginBridges(step, command) ==
  NextIn(IF command = "login"
           THEN << "confirm_dependencies", "get_profile",
                   "setup_environment", "login" >>
         ELSE ExecuteSteps, step)

\* main: the statement that follows `step` when it returns Ok
MainNext(step, command) ==
  NextIn(IF command = "login" THEN LoginSteps ELSE ExecuteSteps, step)

\* a step's failure that main drops: it records the failure and goes on
AbortIgnored(kind, step, events, received) ==
  /\ pc' = MainNext(step, cli.command)
  /\ failed_at' = step
  /\ trace' = trace \o events
  /\ menu' = None
  /\ responses' = received
  /\ UNCHANGED << cli, path, vault_stdout, env, profile, client,
                  cluster_arn, task, container, launched >>

\* `?` on an Err ("error") or a panic: the process ends; nothing else runs.
Abort(kind, step, events, received) ==
  /\ pc' = kind
  /\ failed_at' = step
  /\ trace' = trace \o events
  /\ menu' = None
  /\ responses' = received
  /\ UNCHANGED << cli, path, vault_stdout, env, profile, client,
                  cluster_arn, task, container, launched >>

Received(api, result) == << [ api |-> api, result |-> result ] >>

Shown(prompt, items, selection) ==
  Some([ prompt |-> prompt, items |-> items, selection |-> selection ])

\* a dependency check that looks for aws-vault only
ConfirmDependenciesVaultOnly ==
  /\ pc = "confirm_dependencies"
  /\ IF "aws-vault" \notin path
       THEN Abort("error", "confirm_dependencies", <<"which">>, <<>>)
     ELSE /\ pc' = MainNext("confirm_dependencies", cli.command)
          /\ trace' = trace \o <<"which">>
          /\ UNCHANGED << failed_at, cli, path, vault_stdout, env, profile,
                          client, cluster_arn, task, container, menu,
                          responses, launched >>

\* confirm_dependencies
ConfirmDependencies ==
  /\ pc = "confirm_dependencies"
  /\ IF "aws-vault" \notin path
       THEN Abort("error", "confirm_dependencies", <<"which">>, <<>>)
     ELSE IF "aws" \notin path
       THEN Abort("error", "confirm_dependencies", <<"which", "which">>, <<>>)
     ELSE /\ pc' = MainNext("confirm_dependencies", cli.command)
          /\ trace' = trace \o <<"which", "which">>
          /\ UNCHANGED << failed_at, cli, path, vault_stdout, env, profile,
                          client, cluster_arn, task, container, menu,
                          responses, launched >>

\* Sequences that list the set S once each, in any order.
Orders(S) ==
  { s \in [1..Cardinality(S) -> S] : \A x \in S : \E i \in DOMAIN s : s[i] = x }

\* a sort that was left out: the strings stay in the order discovered
SortStringsSkipped(v) == v

\* Vec<String>::sort and sort_unstable
SortStrings(v) == StableSort(v, v)

\* get_profile
GetProfile ==
  /\ pc = "get_profile"
  /\ \E loaded \in { [ ok |-> FALSE, profiles |-> {} ] }
                   \cup { [ ok |-> TRUE, profiles |-> P ] : P \in SUBSET ProfilePool } :
       IF ~loaded.ok THEN Abort("error", "get_profile", <<"load">>, Received("load", loaded))
       ELSE IF IsSome(cli.environment) THEN
         IF Unwrap(cli.environment) \notin loaded.profiles
           THEN Abort("error", "get_profile", <<"load">>, Received("load", loaded))
         ELSE /\ profile' = cli.environment
              /\ menu' = None
              /\ responses' = Received("load", loaded)
              /\ trace' = trace \o <<"load">>
              /\ pc' = MainNext("get_profile", cli.command)
              /\ cli' = [ cli EXCEPT !.environment = None ]
              /\ UNCHANGED << failed_at, path, vault_stdout, env, client,
                              cluster_arn, task, container, launched >>
       ELSE \E unsorted \in Orders(loaded.profiles \ { <<"default">> }) :
         LET options == SortStrings(unsorted) IN
         IF options = <<>> THEN Abort("panic", "get_profile", <<"load">>, Received("load", loaded))
         ELSE \E selection \in 1..Len(options) :
           \* the chosen name is one of the discovered names: the lookup finds it
           /\ profile' = Some(options[selection])
           /\ menu' = Shown("Pick your environment", options, selection)
           /\ responses' = Received("load", loaded)
           /\ trace' = trace \o <<"load", "select">>
           /\ pc' = MainNext("get_profile", cli.command)
           /\ cli' = [ cli EXCEPT !.environment = None ]
           /\ UNCHANGED << failed_at, path, vault_stdout, env, client,
                           cluster_arn, task, container, launched >>

\* main, line 36: aws-vault login <profile>; join() is Err when the shell
\* cannot be spawned.
Login ==
  /\ pc = "login"
  /\ \E spawned \in BOOLEAN :
       IF ~spawned THEN Abort("error", "login", <<>>, <<>>)
       ELSE /\ pc' = MainNext("login", cli.command)
            /\ trace' = trace \o <<"vault_login">>
            /\ menu' = None
            /\ responses' = <<>>
            /\ UNCHANGED << failed_at, cli, path, vault_stdout, env, profile,
                            client, cluster_arn, task, container, launched >>

RECURSIVE ParseLines(_, _, _)
\* the assignments of the lines from index on, a later one replacing an
\* earlier one of the same key (BTreeMap::insert)
ParseLines(lines, index, map) ==
  IF index > Len(lines) THEN map
  ELSE ParseLines(lines, index + 1,
                  (lines[index].key :> lines[index].value) @@ map)

\* dotenv_parser::parse_dotenv: Err on text that is no assignment, else the
\* map of the assignments; no lines give Ok of the empty map.
parse_dotenv(buffer) ==
  IF \E i \in 1..Len(buffer) : buffer[i].kind # "kv"
    THEN [ ok |-> FALSE, map |-> <<>> ]
  ELSE [ ok |-> TRUE, map |-> ParseLines(buffer, 1, <<>>) ]

\* a set_var that keeps a variable that is already set
set_var_if_unset(e, key, value) ==
  IF e[key] = None THEN [ e EXCEPT ![key] = Some(value) ] ELSE e

\* env::set_var
set_var(e, key, value) == [ e EXCEPT ![key] = Some(value) ]

RECURSIVE SetVars(_, _, _)
\* the for loop of setup_environment over the pairs whose keys are left
SetVars(e, map, left) ==
  IF left = {} THEN e
  ELSE LET key == CHOOSE k \in left : TRUE
       IN  SetVars(set_var(e, key, map[key]), map, left \ {key})

\* a bridge that sets each assignment as it reads it, before it finds out
\* that a later line cannot be parsed
SetupEnvironmentLineByLine ==
  /\ pc = "setup_environment"
  /\ \E spawned \in BOOLEAN :
       IF ~spawned THEN Abort("error", "setup_environment", <<>>, <<>>)
       ELSE LET IsKv(line) == line.kind = "kv"
                map == ParseLines(SelectSeq(vault_stdout, IsKv), 1, <<>>)
                parsed == parse_dotenv(vault_stdout).ok IN
           /\ env' = SetVars(env, map, DOMAIN map)
           /\ vault_stdout' = <<>>
           /\ trace' = trace \o <<"vault_exec">>
                             \o [ i \in 1..Cardinality(DOMAIN map) |-> "set_var" ]
           /\ menu' = None
           /\ responses' = <<>>
           /\ pc' = IF parsed THEN MainNext("setup_environment", cli.command)
                    ELSE "panic"
           /\ failed_at' = IF parsed THEN failed_at ELSE "setup_environment"
           /\ UNCHANGED << cli, path, profile, client, cluster_arn,
                           task, container, launched >>

\* setup_environment
SetupEnvironment ==
  /\ pc = "setup_environment"
  /\ \E spawned \in BOOLEAN :
       IF ~spawned THEN Abort("error", "setup_environment", <<>>, <<>>)
       ELSE LET aws_environment_credentials == parse_dotenv(vault_stdout) IN
         IF ~aws_environment_credentials.ok
           THEN Abort("panic", "setup_environment", <<"vault_exec">>, <<>>)
         ELSE LET map == aws_environment_credentials.map IN
           /\ env' = SetVars(env, map, DOMAIN map)
           /\ vault_stdout' = <<>>
           /\ trace' = trace \o <<"vault_exec">>
                             \o [ i \in 1..Cardinality(DOMAIN map) |-> "set_var" ]
           /\ menu' = None
           /\ responses' = <<>>
           /\ pc' = MainNext("setup_environment", cli.command)
           /\ UNCHANGED << failed_at, cli, path, profile, client, cluster_arn,
                           task, container, launched >>

\* main, lines 43-48: the region, then EcsClient::new
NewClient ==
  /\ pc = "new_client"
  /\ IF IsSome(cli.region) /\ Unwrap(cli.region) \notin RegionNames
       THEN Abort("error", "new_client", <<>>, <<>>)
     ELSE /\ client' = IF IsSome(cli.region) THEN cli.region
                       ELSE Some(<<"default">>)
          /\ cli' = [ cli EXCEPT !.region = None ]
          /\ trace' = trace \o <<"EcsClient::new">>
          /\ menu' = None
          /\ responses' = <<>>
          /\ pc' = MainNext("new_client", cli.command)
          /\ UNCHANGED << failed_at, path, vault_stdout, env, profile,
                          cluster_arn, task, container, launched >>

\* menu entries that are sorted on their own, apart from the ARNs
FriendlyClusterNamesSorted(clusters) ==
  IF \E i \in 1..Len(clusters) : SplitNth1(clusters[i], ":cluster/") = None
    THEN None
  ELSE Some(SortStrings([ i \in 1..Len(clusters) |->
                            Unwrap(SplitNth1(clusters[i], ":cluster/")) ]))

\* get_cluster, line 108: the menu entry of every ARN, in the ARNs' order;
\* None where an ARN has no ":cluster/" (the unwrap panics)
FriendlyClusterNames(clusters) ==
  IF \E i \in 1..Len(clusters) : SplitNth1(clusters[i], ":cluster/") = None
    THEN None
  ELSE Some([ i \in 1..Len(clusters) |->
                Unwrap(SplitNth1(clusters[i], ":cluster/")) ])

\* What a resolver does with its inputs: it returns Err or panics (kind
\* "error", "panic") or returns Ok(value); shown is the menu it showed,
\* events its external effects, received the API responses it read.
Outcome(kind, value, shown, events, received) ==
  [ kind |-> kind, value |-> value, shown |-> shown, events |-> events,
    received |-> received ]

\* get_cluster, lines 105-116, for one list-clusters result: one outcome
\* per entry the operator can pick
ListedClusterOutcomes(result) ==
  LET received == Received("list_clusters", result)
      Stop(kind) ==
        { Outcome(kind, None, None, <<"list_clusters">>, received) } IN
  IF ~result.ok THEN Stop("error")
  ELSE IF result.cluster_arns = None THEN Stop("error")
  ELSE LET clusters == SortStrings(Unwrap(result.cluster_arns))
           friendly_cluster_names == FriendlyClusterNames(clusters) IN
    IF friendly_cluster_names = None THEN Stop("panic")
    ELSE IF Unwrap(friendly_cluster_names) = <<>> THEN Stop("panic")
    ELSE { Outcome("ok", Some(clusters[selection]),
                   Shown("Pick your cluster", Unwrap(friendly_cluster_names),
                         selection),
                   <<"list_clusters", "select">>, received) :
             selection \in 1..Len(clusters) }

ClusterOutcomes ==
  UNION { ListedClusterOutcomes(result) : result \in ListClustersResults }

\* get_cluster
GetCluster ==
  /\ pc = "get_cluster"
  /\ \E o \in IF IsSome(cli.cluster)
                THEN { Outcome("ok", cli.cluster, None, <<>>, <<>>) }
              ELSE ClusterOutcomes :
       IF o.kind # "ok" THEN Abort(o.kind, "get_cluster", o.events, o.received)
       ELSE /\ cluster_arn' = o.value
            /\ menu' = o.shown
            /\ trace' = trace \o o.events
            /\ responses' = o.received
            /\ cli' = [ cli EXCEPT !.cluster = None ]
            /\ pc' = MainNext("get_cluster", cli.command)
            /\ UNCHANGED << failed_at, path, vault_stdout, env, profile,
                            client, task, container, launched >>

\* a check that lost its negation: is_some() && is_empty()
HasFailuresInverted(describe_result) ==
  IsSome(describe_result.failures) /\ Unwrap(describe_result.failures) = <<>>

\* get_tasks, lines 128 and 143: the response reports failures
HasFailures(describe_result) ==
  IsSome(describe_result.failures) /\ Unwrap(describe_result.failures) # <<>>

\* get_tasks, lines 124-133: the task is named
NamedTaskOutcomes(describe_result) ==
  LET received == Received("describe_tasks", describe_result)
      Stop(kind) ==
        { Outcome(kind, None, None, <<"describe_tasks">>, received) } IN
  IF ~describe_result.ok THEN Stop("error")
  ELSE IF HasFailures(describe_result) THEN Stop("error")
  ELSE IF describe_result.tasks = None THEN Stop("error")
  ELSE IF Unwrap(describe_result.tasks) = <<>> THEN Stop("panic")
  ELSE IF ~TaskFromOk(Unwrap(describe_result.tasks)[1]) THEN Stop("panic")
  ELSE { Outcome("ok", Some(TaskFrom(Unwrap(describe_result.tasks)[1])), None,
                 <<"describe_tasks">>, received) }

\* get_tasks, lines 141-161: no task is named, list-tasks gave identifiers
DescribedTaskOutcomes(listed, describe_result) ==
  LET received == listed \o Received("describe_tasks", describe_result)
      events == <<"list_tasks", "describe_tasks">>
      Stop(kind) == { Outcome(kind, None, None, events, received) } IN
  IF ~describe_result.ok THEN Stop("error")
  ELSE IF HasFailures(describe_result) THEN Stop("error")
  ELSE IF describe_result.tasks = None THEN Stop("error")
  ELSE LET raw == Unwrap(describe_result.tasks) IN
    IF \E i \in 1..Len(raw) : ~TaskFromOk(raw[i]) THEN Stop("panic")
    ELSE LET converted == [ i \in 1..Len(raw) |-> TaskFrom(raw[i]) ]
             tasks == StableSort(converted,
                                 [ i \in 1..Len(raw) |-> converted[i].name ])
             friendly_task_names ==
               [ i \in 1..Len(tasks) |-> friendly_output(tasks[i]) ] IN
      IF friendly_task_names = <<>> THEN Stop("panic")
      ELSE { Outcome("ok", Some(tasks[selection]),
                     Shown("Pick your task", friendly_task_names, selection),
                     events \o <<"select">>, received) :
               selection \in 1..Len(tasks) }

\* get_tasks, lines 134-162: no task is named
ListedTaskOutcomes(list_result) ==
  LET listed == Received("list_tasks", list_result)
      Stop(kind) == { Outcome(kind, None, None, <<"list_tasks">>, listed) } IN
  IF ~list_result.ok THEN Stop("error")
  ELSE IF list_result.task_arns = None THEN Stop("error")
  ELSE UNION { DescribedTaskOutcomes(listed, describe_result) :
                 describe_result \in DescribeTasksResults }

NamedOutcomes ==
  UNION { NamedTaskOutcomes(describe_result) :
            describe_result \in DescribeTasksResults }

ListedOutcomes ==
  UNION { ListedTaskOutcomes(list_result) : list_result \in ListTasksResults }

\* get_tasks
GetTasks ==
  /\ pc = "get_tasks"
  /\ \E o \in IF IsSome(cli.task) THEN NamedOutcomes ELSE ListedOutcomes :
       IF o.kind # "ok" THEN Abort(o.kind, "get_tasks", o.events, o.received)
       ELSE /\ task' = o.value
            /\ menu' = o.shown
            /\ trace' = trace \o o.events
            /\ responses' = o.received
            /\ cli' = [ cli EXCEPT !.task = None ]
            /\ pc' = MainNext("get_tasks", cli.command)
            /\ UNCHANGED << failed_at, path, vault_stdout, env, profile,
                            client, cluster_arn, container, launched >>

\* a lookup that compares the name only
FindContainerByName(containers, name) ==
  LET hits == { i \in 1..Len(containers) : containers[i].name = name }
  IN  IF hits = {} THEN None ELSE Some(containers[Min(hits)])

\* choose_container, line 169: the first container whose name or ARN is name
FindContainer(containers, name) ==
  LET hits == { i \in 1..Len(containers) :
                  containers[i].name = name \/ containers[i].arn = name }
  IN  IF hits = {} THEN None ELSE Some(containers[Min(hits)])

\* menu entries that are sorted before they are shown
ContainerNamesSorted(containers) ==
  SortStrings([ i \in 1..Len(containers) |-> containers[i].name ])

\* choose_container, line 177: the menu entries
ContainerNames(containers) ==
  [ i \in 1..Len(containers) |-> containers[i].name ]

\* choose_container returns Ok(c)
ReturnContainer(c, shown, events) ==
  /\ container' = Some(c)
  /\ menu' = shown
  /\ trace' = trace \o events
  /\ responses' = <<>>
  /\ cli' = [ cli EXCEPT !.container = None ]
  /\ pc' = MainNext("choose_container", cli.command)
  /\ UNCHANGED << failed_at, path, vault_stdout, env, profile, client,
                  cluster_arn, task, launched >>

\* choose_container
ChooseContainer ==
  /\ pc = "choose_container"
  /\ LET containers == Unwrap(task).containers IN
     IF IsSome(cli.container) THEN
       IF FindContainer(containers, Unwrap(cli.container)) = None
         THEN Abort("error", "choose_container", <<>>, <<>>)
       ELSE ReturnContainer(
              Unwrap(FindContainer(containers, Unwrap(cli.container))),
              None, <<>>)
     ELSE IF Len(containers) = 1 THEN ReturnContainer(containers[1], None, <<>>)
     ELSE LET friendly_container_name == ContainerNames(containers) IN
       IF friendly_container_name = <<>>
         THEN Abort("panic", "choose_container", <<>>, <<>>)
       ELSE \E selection \in 1..Len(containers) :
         ReturnContainer(containers[selection],
                         Shown("Pick your container", friendly_container_name,
                               selection),
                         <<"select">>)

\* a launch that names the container by its ARN
ExecuteBashContainerByArn ==
  /\ pc = "execute_bash_container"
  /\ \E spawned \in BOOLEAN :
       IF ~spawned THEN Abort("error", "execute_bash_container", <<>>, <<>>)
       ELSE /\ launched' = Some([ cluster |-> Unwrap(cluster_arn),
                                  task |-> Unwrap(task).arn,
                                  container |-> Unwrap(container).arn ])
            /\ trace' = trace \o <<"execute_command">>
            /\ menu' = None
            /\ responses' = <<>>
            /\ pc' = MainNext("execute_bash_container", cli.command)
            /\ UNCHANGED << failed_at, cli, path, vault_stdout, env, profile,
                            client, cluster_arn, task, container >>

\* execute_bash_container: aws ecs execute-command; join() is Err when the
\* shell cannot be spawned.
ExecuteBashContainer ==
  /\ pc = "execute_bash_container"
  /\ \E spawned \in BOOLEAN :
       IF ~spawned THEN Abort("error", "execute_bash_container", <<>>, <<>>)
       ELSE /\ launched' = Some([ cluster |-> Unwrap(cluster_arn),
                                  task |-> Unwrap(task).arn,
                                  container |-> Unwrap(container).name ])
            /\ trace' = trace \o <<"execute_command">>
            /\ menu' = None
            /\ responses' = <<>>
            /\ pc' = MainNext("execute_bash_container", cli.command)
            /\ UNCHANGED << failed_at, cli, path, vault_stdout, env, profile,
                            client, cluster_arn, task, container >>

Next ==
  \/ ConfirmDependencies
  \/ GetProfile
  \/ Login
  \/ SetupEnvironment
  \/ NewClient
  \/ GetCluster
  \/ GetTasks
  \/ ChooseContainer
  \/ ExecuteBashContainer

Spec == Init /\ [][Next]_vars

\* ------------------------------------------------------------ claims
Has(event) == \E i \in DOMAIN trace : trace[i] = event
ApiCalls == { "list_clusters", "list_tasks", "describe_tasks" }
Failed == pc \in { "error", "panic" }

\* C1: every API call comes after the construction of the client, and the
\* client is constructed only after the credential bridge has run, has
\* written all its variables and has not failed.
C1_BridgeBeforeClient ==
  /\ \A i \in DOMAIN trace :
       trace[i] \in ApiCalls =>
         \E j \in 1..(i - 1) : trace[j] = "EcsClient::new"
  /\ \A i \in DOMAIN trace :
       trace[i] = "EcsClient::new" =>
         /\ \E j \in 1..(i - 1) : trace[j] = "vault_exec"
         /\ \A j \in i..Len(trace) : trace[j] \notin { "vault_exec", "set_var" }
  /\ (IsSome(client) \/ pc \in { "get_cluster", "get_tasks" }) =>
       /\ Has("vault_exec")
       /\ failed_at # "setup_environment"
       /\ vault_stdout = <<>>

\* an execute run that wrote variables and later called the API
C1_Witness ==
  /\ Has("set_var")
  /\ Has("describe_tasks")
  /\ IsSome(client)

\* C2: the session is launched only with profile, cluster, task and
\* container all resolved and no step failed; once a step has failed the run
\* has ended, the results of the later steps are absent and nothing is
\* launched.
C2_LaunchNeedsAllResolved ==
  /\ (IsSome(launched) \/ pc = "execute_bash_container") =>
       /\ IsSome(profile) /\ IsSome(cluster_arn)
       /\ IsSome(task) /\ IsSome(container)
       /\ Has("vault_exec")
       /\ failed_at = "none"
  /\ failed_at # "none" =>
       /\ Failed
       /\ launched = None
       /\ ~ENABLED Next
       /\ failed_at \in { "confirm_dependencies", "get_profile" } =>
            profile = None
       /\ failed_at \in { "confirm_dependencies", "get_profile",
                          "setup_environment", "new_client" } =>
            client = None /\ cluster_arn = None
       /\ failed_at # "execute_bash_container"
            /\ failed_at # "choose_container" /\ failed_at # "login" =>
            task = None
       /\ failed_at \notin { "execute_bash_container", "login" } =>
            container = None

\* a session launched after the whole cascade
C2_Witness ==
  /\ IsSome(launched)
  /\ pc = "ok"
  /\ IsSome(container)

\* C3: when the vault ran and its output gave no assignment, the bridge
\* fails: the environment is as before, no client is constructed and the
\* cascade stops in setup_environment.
C3_NoAssignmentsFailsBridge ==
  (Has("vault_exec") /\ ~Has("set_var")) =>
    /\ Failed
    /\ failed_at = "setup_environment"
    /\ client = None
    /\ env = Env0

\* C4: a bridge step that returns Ok leaves every variable that a line of
\* the dump assigns (the last such line, for a key assigned twice) at that
\* line's value, whether or not it was set before, and every other variable
\* as it was.
C4_BridgeMergesDump ==
  [][ (pc = "setup_environment" /\ failed_at' = "none") =>
        /\ \A i \in 1..Len(vault_stdout) :
             (\A j \in (i + 1)..Len(vault_stdout) :
                vault_stdout[j].key # vault_stdout[i].key)
             => env'[vault_stdout[i].key] = Some(vault_stdout[i].value)
        /\ \A k \in EnvKeys :
             (\A i \in 1..Len(vault_stdout) : vault_stdout[i].key # k)
             => env'[k] = env[k] ]_vars

\* the bridge overwrote a set variable, set an unset one and kept a third
C4_Witness ==
  /\ pc = "new_client"
  /\ Env0["AWS_ACCESS_KEY_ID"] = Some("old")
  /\ env["AWS_ACCESS_KEY_ID"] = Some("new")
  /\ Env0["AWS_SESSION_TOKEN"] = None
  /\ env["AWS_SESSION_TOKEN"] = Some("new")
  /\ env["HOME"] = Env0["HOME"]

\* the containers of the resolved task that an explicit value names
Matching(value) ==
  { i \in 1..Len(Unwrap(task).containers) :
      \/ Unwrap(task).containers[i].name = value
      \/ Unwrap(task).containers[i].arn = value }

\* C5: with an explicit container value, choose_container returns Err, shows
\* no menu and launches nothing when no container of the task has the value
\* as name or ARN; otherwise it returns a container that has, with no menu.
C5_ExplicitContainer ==
  [][ (pc = "choose_container" /\ IsSome(cli.container)) =>
        /\ menu' = None
        /\ trace' = trace
        /\ launched' = None
        /\ IF Matching(Unwrap(cli.container)) = {}
             THEN /\ pc' = "error"
                  /\ failed_at' = "choose_container"
                  /\ container' = None
             ELSE /\ failed_at' = "none"
                  /\ \E i \in Matching(Unwrap(cli.container)) :
                       container' = Some(Unwrap(task).containers[i]) ]_vars

\* an explicit value that no container of the resolved task has
C5_Witness ==
  /\ pc = "error"
  /\ failed_at = "choose_container"
  /\ IsSome(task)
  /\ Unwrap(task).containers # <<>>
  /\ container = None

\* C6: without an explicit container value, a task with one container gives
\* that container and no menu; a task with two or more gives one menu of
\* the container names in the task's order and the container at the chosen
\* index.
C6_MenuOrSingleContainer ==
  [][ (pc = "choose_container" /\ cli.container = None) =>
        LET containers == Unwrap(task).containers IN
        /\ Len(containers) = 1 =>
             /\ container' = Some(containers[1])
             /\ menu' = None
             /\ trace' = trace
        /\ Len(containers) >= 2 =>
             /\ IsSome(menu')
             /\ trace' = Append(trace, "select")
             /\ Len(Unwrap(menu').items) = Len(containers)
             /\ \A i \in 1..Len(containers) :
                  Unwrap(menu').items[i] = containers[i].name
             /\ container' = Some(containers[Unwrap(menu').selection]) ]_vars

\* the second entry picked from a menu of a task's two containers
C6_Witness ==
  /\ pc = "execute_bash_container"
  /\ IsSome(menu)
  /\ Unwrap(menu).prompt = "Pick your container"
  /\ Unwrap(menu).items = << <<"web">>, <<"db">> >>
  /\ Unwrap(menu).selection = 2
  /\ Unwrap(container).name = <<"db">>

\* C7: a Task that get_tasks returned has at least one container, so
\* choose_container never runs on zero containers.
C7_ContainersNeverEmpty ==
  IsSome(task) => Unwrap(task).containers # <<>>

\* the cluster menu, when the last step showed it
ClusterMenuShown ==
  IsSome(menu) /\ Unwrap(menu).prompt = "Pick your cluster"

\* the substring of an ARN after its first ":cluster/"
AfterClusterDelim(arn) ==
  SubSeq(arn, 1 + Min({ i \in 1..Len(arn) : arn[i] = ":cluster/" }), Len(arn))

Ascending(strings) ==
  \A i \in 1..Len(strings) : \A j \in i..Len(strings) :
     StrLeq(strings[i], strings[j])

\* C8, as stated: the cluster menu is in ascending order of the friendly
\* names, and the ARN returned is the one whose friendly name was picked.
C8_MenuAscendingByFriendlyName ==
  ClusterMenuShown =>
    /\ Ascending(Unwrap(menu).items)
    /\ AfterClusterDelim(Unwrap(cluster_arn))
         = Unwrap(menu).items[Unwrap(menu).selection]

\* C8, amended: the cluster menu lists the friendly names of the returned
\* ARNs in ascending order of the ARNs (which is ascending order of the
\* friendly names when all ARNs have the same text before ":cluster/"), and
\* the ARN returned for index i is the i-th ARN in that order, whose
\* friendly name is entry i.
C8_MenuFollowsArnOrder ==
  ClusterMenuShown =>
    LET arns == Unwrap(responses[1].result.cluster_arns)
        n == Len(arns)
        items == Unwrap(menu).items
    IN  /\ Len(items) = n
        /\ \E f \in [1..n -> 1..n] :
             /\ \A i \in 1..n : \A j \in 1..n : f[i] = f[j] => i = j
             /\ Ascending([ i \in 1..n |-> arns[f[i]] ])
             /\ \A i \in 1..n : items[i] = AfterClusterDelim(arns[f[i]])
             /\ cluster_arn = Some(arns[f[Unwrap(menu).selection]])
        /\ AfterClusterDelim(Unwrap(cluster_arn))
             = items[Unwrap(menu).selection]
        /\ (\A i \in 1..n : arns[i][1] = arns[1][1] /\ arns[i][2] = ":cluster/")
             => Ascending(items)

\* the second entry picked from a menu whose names are not in ascending order
C8_Witness ==
  /\ ClusterMenuShown
  /\ Unwrap(menu).items = << <<"beta">>, <<"alpha">> >>
  /\ Unwrap(menu).selection = 2
  /\ cluster_arn = Some(<<"222", ":cluster/", "alpha">>)

\* the describe-tasks responses the last step read
Described ==
  { responses[i].result : i \in { j \in DOMAIN responses :
                                    responses[j].api = "describe_tasks" } }

\* C9: on both paths, a describe-tasks response with a non-empty failures
\* list makes get_tasks return Err at once: no Task, no task menu, no
\* container, no session, whatever task records the response holds.
C9_FailuresStopResolution ==
  \A d \in Described :
    (d.ok /\ d.failures # None /\ d.failures # Some(<<>>)) =>
      /\ pc = "error"
      /\ failed_at = "get_tasks"
      /\ task = None
      /\ menu = None
      /\ trace[Len(trace)] = "describe_tasks"
      /\ container = None
      /\ launched = None

\* failures reported along with task records, on the path without a name
C9_Witness ==
  /\ Len(responses) = 2
  /\ \E d \in Described :
       /\ d.failures = Some(<<ApiFailure>>)
       /\ d.tasks = Some(<<RawApi, RawBatch>>)
  /\ pc = "error"

\* a raw record that the conversion has no value for, field by field
MalformedRecord(item) ==
  \/ item.task_definition_arn = None
  \/ \A i \in 1..Len(Unwrap(item.task_definition_arn)) :
       Unwrap(item.task_definition_arn)[i] # ":task-definition/"
  \/ item.containers = None
  \/ \E i \in 1..Len(Unwrap(item.containers)) :
       \/ Unwrap(item.containers)[i].container_arn = None
       \/ Unwrap(item.containers)[i].name = None
       \/ Unwrap(item.containers)[i].last_status = None
  \/ item.task_arn = None
  \/ item.last_status = None
  \/ \A i \in 1..Len(TaskStatus) : Unwrap(item.last_status) # <<TaskStatus[i]>>

\* the records of a response that get_tasks converts: the first when the
\* task was named, all of them otherwise
ConvertedRecords(d) ==
  IF ~d.ok \/ (d.failures # None /\ d.failures # Some(<<>>)) \/ d.tasks = None
    THEN {}
  ELSE IF Len(responses) = 1
    THEN { Unwrap(d.tasks)[i] : i \in { j \in 1..Len(Unwrap(d.tasks)) : j = 1 } }
  ELSE { Unwrap(d.tasks)[i] : i \in 1..Len(Unwrap(d.tasks)) }

\* C10: a malformed record among those converted ends the run as an error
\* result (not a panic), with no Task and nothing run after it.
C10_MalformedRecordIsError ==
  \A d \in Described :
    (\E item \in ConvertedRecords(d) : MalformedRecord(item)) =>
      /\ pc = "error"
      /\ failed_at = "get_tasks"
      /\ task = None
      /\ menu = None
      /\ launched = None

\* The events a login invocation may produce.
LoginEvents == { "which", "load", "select", "vault_login" }

\* C11: in every run of the login sub-command no ECS client is constructed,
\* no list or describe call is issued, no cluster, task or container menu is
\* shown and the process environment is not modified; the only steps are the
\* dependency check, the identity resolution and the vault login.
C11_LoginTouchesNothingElse ==
  cli.command = "login" =>
    /\ client = None
    /\ \A i \in DOMAIN trace : trace[i] \in LoginEvents
    /\ \A i \in DOMAIN responses : responses[i].api = "load"
    /\ IsSome(menu) => Unwrap(menu).prompt = "Pick your environment"
    /\ env = Env0
    /\ cluster_arn = None /\ task = None /\ container = None
    /\ launched = None
    /\ pc \in { "confirm_dependencies", "get_profile", "login",
                "ok", "error", "panic" }
    /\ failed_at \in { "none", "confirm_dependencies", "get_profile", "login" }

\* a login run that chose its profile from the menu and let aws-vault log in
C11_Witness ==
  /\ cli.command = "login"
  /\ pc = "ok"
  /\ trace = << "which", "which", "load", "select", "vault_login" >>
  /\ IsSome(profile)

\* C12: when aws-vault or aws is missing from the search path the invocation
\* fails in the dependency check, before any resolution step: no profile is
\* loaded, no menu shown, aws-vault not invoked, the environment not modified
\* and no API call issued, for login and for execute alike.
C12_MissingDependencyFailsFirst ==
  path # Executables =>
    /\ pc \in { "confirm_dependencies", "error" }
    /\ pc = "error" => failed_at = "confirm_dependencies"
    /\ \A i \in DOMAIN trace : trace[i] = "which"
    /\ profile = None /\ menu = None /\ responses = <<>>
    /\ env = Env0
    /\ client = None /\ cluster_arn = None /\ task = None
    /\ container = None /\ launched = None

\* aws-vault is installed, aws is not, and the invocation has failed
C12_Witness ==
  /\ path = { "aws-vault" }
  /\ pc = "error"
  /\ failed_at = "confirm_dependencies"
  /\ trace = << "which", "which" >>

\* The task menu of get_tasks is the one shown by the last step.
TaskMenuShown == IsSome(menu) /\ Unwrap(menu).prompt = "Pick your task"

\* One entry of the bracketed list: the name alone for a container whose
\* status string is exactly RUNNING, the name, a space and the status otherwise.
ContainerEntry(c) ==
  IF c.status = <<"RUNNING">> THEN c.name ELSE c.name \o <<" ">> \o c.status

RECURSIVE EntriesJoined(_)
\* The entries of the containers in stored order, ", " between neighbours.
EntriesJoined(cs) ==
  IF cs = <<>> THEN <<>>
  ELSE IF Len(cs) = 1 THEN ContainerEntry(cs[1])
  ELSE ContainerEntry(Head(cs)) \o <<", ">> \o EntriesJoined(Tail(cs))

\* The rendering the specification gives for a Task.
SpecifiedRendering(t) ==
  t.name \o (IF t.status = "RUNNING" THEN <<>> ELSE <<" ", t.status>>)
         \o <<" (">> \o t.arn \o <<") [">> \o EntriesJoined(t.containers)
         \o <<"]">>

\* C13: for every Task, friendly_output() is name, status suffix, ' (', arn,
\* ') [', the container entries joined by ', ', ']': the suffix is empty iff
\* the status is RUNNING, else a space and the status name; an entry is the
\* container name alone iff its status is exactly 'RUNNING'. Every Task that
\* get_tasks returns from the menu is shown in the menu by this rendering.
C13_FriendlyOutputFormat ==
  TaskMenuShown =>
    /\ Unwrap(menu).items[Unwrap(menu).selection]
         = SpecifiedRendering(Unwrap(task))
    /\ friendly_output(Unwrap(task)) = SpecifiedRendering(Unwrap(task))

\* the menu lists a running task with a running and a pending container, and
\* a stopped task; the stopped one is chosen
C13_Witness ==
  /\ TaskMenuShown
  /\ Unwrap(menu).items =
       << << "api", " (", "t1", ") [", "web", ", ", "db", " ", "PENDING", "]" >>,
          << "batch", " ", "STOPPED", " (", "t2", ") [", "db", " ", "PENDING", "]" >> >>
  /\ Unwrap(menu).selection = 2
  /\ Unwrap(task).status = "STOPPED"

\* The list-clusters responses the last step received.
ClustersListed ==
  { responses[i].result : i \in { j \in DOMAIN responses :
                                    responses[j].api = "list_clusters" } }

\* C14: without an explicit cluster, a list-clusters response that holds no
\* cluster (the ARN list absent, or present with zero entries) makes the
\* resolver fail with a not-found error and show no menu; with an explicit
\* cluster the value is returned unchanged, with no list-clusters call and
\* no menu.
C14_NoClustersIsNotFound ==
  /\ \A r \in ClustersListed :
       (r.ok /\ r.cluster_arns \in { None, Some(<<>>) }) =>
         /\ pc = "error"
         /\ failed_at = "get_cluster"
         /\ menu = None
         /\ cluster_arn = None
  /\ (pc = "get_tasks" /\ responses = <<>>) =>
         /\ cluster_arn \in ClusterArgs \ { None }
         /\ menu = None
         /\ ~Has("list_clusters")

\* get_tasks read a describe-tasks response without listing first: the task
\* was named.
NamedPathTaken ==
  Len(responses) = 1 /\ responses[1].api = "describe_tasks"

\* C15: on the named-task path, a describe-tasks response without failures
\* whose task collection is empty (absent, or present with zero records)
\* makes resolution fail with an error result, not a panic, and nothing
\* downstream runs; with one or more records exactly the first is converted
\* and returned, the others are ignored and no menu is shown.
C15_NamedTaskEmptyIsError ==
  NamedPathTaken =>
    LET d == responses[1].result IN
    (d.ok /\ d.failures \in { None, Some(<<>>) }) =>
      IF d.tasks \in { None, Some(<<>>) }
        THEN /\ pc = "error"
             /\ failed_at = "get_tasks"
             /\ task = None /\ menu = None
             /\ container = None /\ launched = None
      ELSE ~MalformedRecord(Unwrap(d.tasks)[1]) =>
             /\ pc = "choose_container"
             /\ task = Some(TaskFrom(Unwrap(d.tasks)[1]))
             /\ Unwrap(task).arn = Unwrap(Unwrap(d.tasks)[1].task_arn)
             /\ menu = None

\* The list-tasks responses the last step received.
TasksListed ==
  { responses[i].result : i \in { j \in DOMAIN responses :
                                    responses[j].api = "list_tasks" } }

\* C16: on the path without a task name, a list-tasks response that yields
\* no identifier (the list absent, or present with zero entries) makes
\* resolution fail at that point: no describe-tasks call is issued and no
\* task menu is shown.
C16_NoTaskArnsStopsBeforeDescribe ==
  \A r \in TasksListed :
    (r.ok /\ r.task_arns \in { None, Some(<<>>) }) =>
      /\ pc = "error"
      /\ failed_at = "get_tasks"
      /\ trace[Len(trace)] = "list_tasks"
      /\ Described = {}
      /\ menu = None
      /\ task = None

\* C17: on the path without a task name the task menu is shown only if
\* every returned record converts; it has exactly one entry per record, in
\* ascending order of the task names, each entry is the friendly_output of
\* its task, and the Task returned for the chosen index is the one whose
\* rendering is the entry at that index.
C17_TaskMenuSortedOnePerRecord ==
  TaskMenuShown =>
    LET raw == Unwrap(responses[2].result.tasks)
        items == Unwrap(menu).items
        selection == Unwrap(menu).selection IN
    /\ \A i \in 1..Len(raw) : ~MalformedRecord(raw[i])
    /\ Len(items) = Len(raw)
    /\ \E f \in [ 1..Len(raw) -> 1..Len(raw) ] :
         /\ \A i, j \in 1..Len(raw) : f[i] = f[j] => i = j
         /\ \A i \in 1..Len(raw) :
              items[i] = SpecifiedRendering(TaskFrom(raw[f[i]]))
         /\ \A i, j \in 1..Len(raw) :
              i < j => StrLeq(TaskFrom(raw[f[i]]).name, TaskFrom(raw[f[j]]).name)
         /\ task = Some(TaskFrom(raw[f[selection]]))
    /\ items[selection] = SpecifiedRendering(Unwrap(task))

\* the API returned batch before api; the menu lists api first and the
\* second entry, batch, is chosen
C17_Witness ==
  /\ TaskMenuShown
  /\ Len(responses) = 2
  /\ responses[2].result.tasks = Some(<<RawBatch, RawApi>>)
  /\ Unwrap(menu).selection = 2
  /\ Unwrap(task).name = <<"batch">>
  /\ Unwrap(task).arn = <<"t2">>

\* No aws-vault invocation and no environment write among the events.
NoVaultEvent(events) ==
  \A i \in DOMAIN events : events[i] \notin { "vault_login", "vault_exec", "set_var" }

\* C18: get_profile with an explicit name shows no menu and looks the name up
\* verbatim; a name that is not in the discovered set fails with a not-found
\* error before aws-vault is invoked and before the environment changes;
\* without an explicit name the menu is exactly the discovered names other
\* than 'default', ascending, and the name at the chosen index is used.
C18_IdentityResolution ==
  [][ (pc = "get_profile" /\ responses'[1].result.ok) =>
        LET discovered == responses'[1].result.profiles IN
        /\ env' = env
        /\ NoVaultEvent(trace')
        /\ IF IsSome(cli.environment)
             THEN /\ menu' = None
                  /\ trace' = trace \o <<"load">>
                  /\ IF Unwrap(cli.environment) \in discovered
                       THEN /\ profile' = cli.environment
                            /\ failed_at' = "none"
                            /\ pc' \in { "login", "setup_environment" }
                     ELSE /\ pc' = "error"
                          /\ failed_at' = "get_profile"
                          /\ profile' = None
           ELSE (discovered \ { <<"default">> } # {}) =>
                  /\ IsSome(menu')
                  /\ Unwrap(menu').prompt = "Pick your environment"
                  /\ { Unwrap(menu').items[i] : i \in DOMAIN Unwrap(menu').items }
                       = discovered \ { <<"default">> }
                  /\ Len(Unwrap(menu').items)
                       = Cardinality(discovered \ { <<"default">> })
                  /\ Ascending(Unwrap(menu').items)
                  /\ profile' = Some(Unwrap(menu').items[Unwrap(menu').selection])
                  /\ failed_at' = "none"
    ]_vars

\* default, dev and prod were discovered; the menu lists dev and prod and
\* the second entry is chosen
C18_Witness ==
  /\ Len(responses) = 1 /\ responses[1].api = "load"
  /\ responses[1].result.profiles = { <<"default">>, <<"dev">>, <<"prod">> }
  /\ IsSome(menu)
  /\ Unwrap(menu).items = << <<"dev">>, <<"prod">> >>
  /\ Unwrap(menu).selection = 2
  /\ profile = Some(<<"prod">>)

\* How often the vault pipeline of the bridge ran.
BridgeRuns(events) ==
  Cardinality({ i \in DOMAIN events : events[i] = "vault_exec" })

\* The environment is the initial one as long as the bridge has not run, and
\* in a run that failed in the bridge or before it; the bridge runs at most
\* once.
EnvUntouchedUpToBridge(e, events, failed) ==
  /\ BridgeRuns(events) <= 1
  /\ BridgeRuns(events) = 0 => e = Env0
  /\ failed \in { "confirm_dependencies", "get_profile", "setup_environment" }
       => e = Env0

\* C19: the process environment is modified only by setup_environment, at
\* most once per invocation: before the bridge has run, and in every
\* invocation that fails at or before the bridge, it equals the initial
\* environment, and no step after the bridge changes it.
C19_OnlyBridgeWritesEnv ==
  [][ /\ EnvUntouchedUpToBridge(env, trace, failed_at)
      /\ EnvUntouchedUpToBridge(env', trace', failed_at')
      /\ env' # env => pc = "setup_environment"
    ]_vars

\* the bridge changed the environment, and the run went on through every
\* later step to the launch with that environment
C19_Witness ==
  /\ env # Env0
  /\ env["AWS_SESSION_TOKEN"] = Some("new")
  /\ BridgeRuns(trace) = 1
  /\ pc = "ok"
  /\ IsSome(launched)
  /\ IsSome(client)

\* How often the session was launched.
Launches ==
  Cardinality({ i \in DOMAIN trace : trace[i] = "execute_command" })

\* C20: in an execute invocation the launch happens at most once, and its
\* arguments agree with the resolution results: the cluster is the value
\* get_cluster returned, the task ARN is the arn of the Task get_tasks
\* returned, and the container name is the name of a container that is an
\* element of that Task's containers.
C20_LaunchArgumentsAgree ==
  /\ Launches <= 1
  /\ IsSome(launched) <=> Launches = 1
  /\ IsSome(launched) =>
       /\ cli.command = "execute"
       /\ IsSome(cluster_arn) /\ IsSome(task) /\ IsSome(container)
       /\ Unwrap(launched).cluster = Unwrap(cluster_arn)
       /\ Unwrap(launched).task = Unwrap(task).arn
       /\ \E i \in 1..Len(Unwrap(task).containers) :
            /\ Unwrap(task).containers[i] = Unwrap(container)
            /\ Unwrap(task).containers[i].name = Unwrap(launched).container

\* a session in the second container of the chosen task, on a cluster picked
\* from the menu's ARNs
C20_Witness ==
  /\ IsSome(launched)
  /\ Unwrap(launched).container = <<"db">>
  /\ Unwrap(launched).task = <<"t1">>
  /\ Unwrap(launched).cluster = <<"222", ":cluster/", "alpha">>
  /\ Len(Unwrap(task).containers) = 2
  /\ pc = "ok"

====
